---- MODULE Spec2Model ----
(***************************************************************************)
(* Model of investpy.py: the period-growth kernel `growth`, the            *)
(* accumulation simulator `growth_simulation` and the decumulation         *)
(* simulator `withdrawal_simulation`.                                      *)
(*                                                                         *)
(* Numbers.  numpy float64 values are modelled as decimal fixed-point      *)
(* numbers.  A money amount is a count of 1/FloatRes currency units, a     *)
(* rate is a count of 1/RateRes.  A product or quotient that does not fit  *)
(* the resolution is rounded to the nearest unit, ties to even, the way    *)
(* IEEE 754 rounds at its own resolution.  NaN is modelled explicitly: a   *)
(* balance cell is a record [nan, num, den] whose value is num/den         *)
(* currency units when nan is FALSE.                                       *)
(*                                                                         *)
(* Randomness.  np.random.randn is modelled by an explicit matrix of       *)
(* standard-normal draws, chosen from a bounded family of matrices (all    *)
(* zero but for one shock per column).                                     *)
(***************************************************************************)
EXTENDS Integers, Sequences, FiniteSets, TLC

VARIABLES pc, fn, args, locals, ret

vars == <<pc, fn, args, locals, ret>>

(***************************************************************************)
(* Bounds of the model.                                                    *)
(***************************************************************************)
MaxYears == 2
MaxSims == 2
MaxN == 2

(***************************************************************************)
(* Program constants.                                                      *)
(***************************************************************************)
Percent == 100
MonthsPerYear == 12
PadRows == 11
CentsPerUnit == 100
Million == 1000000
WithdrawalStdevCents == 5
SqrtDigits == 3464

FloatRes == 10 * CentsPerUnit
RateRes == Percent * MonthsPerYear
SqrtScale == 10 * Percent

(***************************************************************************)
(* Arithmetic.                                                             *)
(***************************************************************************)
RoundHalfEven(a, d) ==
    LET q == a \div d
        r == a % d
    IN  IF 2 * r < d THEN q
        ELSE IF 2 * r > d THEN q + 1
        ELSE IF q % 2 = 0 THEN q ELSE q + 1

ExactDiv(a, b) == IF b > 0 THEN a \div b ELSE (0 - a) \div (0 - b)

RECURSIVE Pow(_, _)
Pow(b, e) == IF e = 0 THEN 1 ELSE b * Pow(b, e - 1)

NaN == [nan |-> TRUE, num |-> 0, den |-> FloatRes]

Float(m) == [nan |-> FALSE, num |-> m, den |-> FloatRes]

(***************************************************************************)
(* numpy arrays: a shape and the cells, indexed from 0 as in the source.   *)
(***************************************************************************)
Array(rows, cols, cell(_, _)) ==
    [shape |-> <<rows, cols>>,
     at    |-> [j \in 0..(rows - 1) |-> [c \in 0..(cols - 1) |-> cell(j, c)]]]

Full(rows, cols, v) ==
    LET cell(j, c) == v IN Array(rows, cols, cell)

Repeat(a, k) ==
    LET cell(j, c) == a.at[j \div k][c]
    IN  Array(a.shape[1] * k, a.shape[2], cell)

Concatenate(a, b) ==
    LET cell(j, c) == IF j < a.shape[1] THEN a.at[j][c] ELSE b.at[j - a.shape[1]][c]
    IN  Array(a.shape[1] + b.shape[1], a.shape[2], cell)

(* Variant: the slice drops one row more than asked. *)
DropLastAndOneMore(a, k) ==
    LET rows == IF a.shape[1] > k + 1 THEN a.shape[1] - (k + 1) ELSE 0
        cell(j, c) == a.at[j][c]
    IN  Array(rows, a.shape[2], cell)

DropLast(a, k) ==
    LET rows == IF a.shape[1] > k THEN a.shape[1] - k ELSE 0
        cell(j, c) == a.at[j][c]
    IN  Array(rows, a.shape[2], cell)

SetRow(a, j, row(_)) ==
    [a EXCEPT !.at[j] = [c \in 0..(a.shape[2] - 1) |-> row(c)]]

(***************************************************************************)
(* np.random.randn(rows, cols): the draws of one call.  A shock is a       *)
(* record [row, k]; column c receives the draw k at row shock.row + c and  *)
(* 0 everywhere else.                                                      *)
(***************************************************************************)
NoShock == [row |-> 0, k |-> 0]

Shocks(rowset) == {NoShock} \cup [row : rowset, k : {-1, 1}]

randn(rows, cols, shock) ==
    LET cell(j, c) == IF j = shock.row + c THEN shock.k ELSE 0
    IN  Array(rows, cols, cell)

sims_matrix(rows, cols, mean, stdev, shock) ==
    LET x == randn(rows, cols, shock)
        cell(j, c) == mean + (x.at[j][c] * stdev)
    IN  Array(rows, cols, cell)

(***************************************************************************)
(* growth(principal, rate, n, contribution) on one column.  principal is   *)
(* a balance cell, rate the rational rate.num/rate.den, contribution a     *)
(* money amount.  With D = n*rate.den and B = D + rate.num the source's    *)
(* 1 + rate/n is B/D and rate/n is rate.num/D, so that                     *)
(*   compound_interest = principal * B^n / D^n                             *)
(*   contributions     = contribution * ((B^n - D^n) / D^n) / (rate.num/D) *)
(* The quotient (B^n - D^n) / rate.num is exact.  A zero rate divides      *)
(* 0.0 by 0.0: nan on numpy operands.                                      *)
(***************************************************************************)
(* Variant: the contribution is paid in before the period compounds. *)
growth_contribution_first(principal, rate, n, contribution) ==
    LET D == n * rate.den
        B == D + rate.num
        Bn == Pow(B, n)
        Dn == Pow(D, n)
        cent == FloatRes \div CentsPerUnit
    IN  IF rate.num = 0 \/ principal.nan THEN NaN
        ELSE Float(RoundHalfEven((principal.num + contribution) * Bn, cent * Dn) * cent)

(* Variant: the contribution term is subtracted instead of added. *)
growth_contribution_subtracted(principal, rate, n, contribution) ==
    LET D == n * rate.den
        B == D + rate.num
        Bn == Pow(B, n)
        Dn == Pow(D, n)
        Q == ExactDiv(Bn - Dn, rate.num)
        cent == FloatRes \div CentsPerUnit
    IN  IF rate.num = 0 \/ principal.nan THEN NaN
        ELSE Float(RoundHalfEven(principal.num * Bn - contribution * Q * D, cent * Dn) * cent)

growth(principal, rate, n, contribution) ==
    LET t == 1
        D == n * rate.den
        B == D + rate.num
        Bn == Pow(B, n * t)
        Dn == Pow(D, n * t)
        Q == ExactDiv(Bn - Dn, rate.num)
        sum == principal.num * Bn + contribution * Q * D
        cent == FloatRes \div CentsPerUnit
    IN  IF rate.num = 0 \/ principal.nan THEN NaN
        ELSE Float(RoundHalfEven(sum, cent * Dn) * cent)

(***************************************************************************)
(* A direct call of growth.  With Python scalars (vectorised = FALSE) the  *)
(* division 0.0 / 0.0 raises ZeroDivisionError instead of giving nan.      *)
(***************************************************************************)
KernelRates == {[num |-> k, den |-> 4] : k \in {-2, -1, 0, 1, 2}}

KernelArgs ==
    [principal : {-1000, 0, 4, 1000}, rate : KernelRates, n : 1..MaxN,
     contribution : {-500, 0, 500}, vectorised : BOOLEAN]

NoLocals == [none |-> TRUE]

Pending == [kind |-> "pending"]

InitGrowth ==
    /\ pc = "call"
    /\ fn = "growth"
    /\ args \in KernelArgs
    /\ locals = NoLocals
    /\ ret = Pending

growth_call ==
    /\ pc = "call"
    /\ fn = "growth"
    /\ pc' = "done"
    /\ ret' = IF args.rate.num = 0 /\ ~args.vectorised
              THEN [kind |-> "raised", error |-> "ZeroDivisionError"]
              ELSE [kind |-> "value",
                    value |-> growth(Float(args.principal), args.rate, args.n,
                                     args.contribution)]
    /\ UNCHANGED <<fn, args, locals>>

SpecGrowth == InitGrowth /\ [][growth_call]_vars

(***************************************************************************)
(* Numbers given by the caller: a percentage argument p is the number p,   *)
(* held at rate resolution; money arguments are given in money units.      *)
(***************************************************************************)
Number(p) == p * RateRes

DivPercent(x) == RoundHalfEven(x, Percent)

DivMonths(x) == RoundHalfEven(x, MonthsPerYear)

DivSqrtMonths(x) == RoundHalfEven(x * SqrtScale, SqrtDigits)

MulRate(m, r) == RoundHalfEven(m * r, RateRes)

Rate(r) == [num |-> r, den |-> RateRes]

(***************************************************************************)
(* growth_simulation                                                       *)
(***************************************************************************)
RECURSIVE raise_loop(_, _, _, _)
raise_loop(j, n_years, contributions, raises) ==
    IF j >= n_years THEN contributions
    ELSE LET row(c) == MulRate(contributions.at[j][c], raises.at[j][c])
         IN  raise_loop(j + 1, n_years, SetRow(contributions, j + 1, row), raises)

(* Variant: the step overwrites row j instead of filling row j + 1. *)
RECURSIVE growth_loop_in_place(_, _, _, _, _)
growth_loop_in_place(j, last, sims, monthly_returns, contributions) ==
    IF j >= last THEN sims
    ELSE LET row(c) == growth(sims.at[j][c], Rate(monthly_returns.at[j][c]), 1,
                              contributions.at[j + 1][c])
         IN  growth_loop_in_place(j + 1, last, SetRow(sims, j, row), monthly_returns,
                                  contributions)

RECURSIVE growth_loop(_, _, _, _, _)
growth_loop(j, last, sims, monthly_returns, contributions) ==
    IF j >= last THEN sims
    ELSE LET row(c) == growth(sims.at[j][c], Rate(monthly_returns.at[j][c]), 1,
                              contributions.at[j + 1][c])
         IN  growth_loop(j + 1, last, SetRow(sims, j + 1, row), monthly_returns,
                         contributions)

growth_simulation_locals(a) ==
    LET return_mean == DivPercent(Number(a.return_mean))
        return_stdev == DivPercent(Number(a.return_stdev))
        raise_mean == DivPercent(Number(a.raise_mean))
        raise_stdev == DivPercent(Number(a.raise_stdev))
        n_months == MonthsPerYear * a.n_years
        monthly_return_mean == DivMonths(return_mean)
        monthly_return_stdev == DivSqrtMonths(return_stdev)
        monthly_returns == sims_matrix(n_months + MonthsPerYear, a.n_simulations,
                                       monthly_return_mean, monthly_return_stdev,
                                       a.return_shock)
        raises == sims_matrix(a.n_years, a.n_simulations, raise_mean + RateRes,
                              raise_stdev, a.raise_shock)
        flat == Full(a.n_years + 1, a.n_simulations, a.monthly_contribution)
        raised == raise_loop(0, a.n_years, flat, raises)
        contributions == Concatenate(Full(1, a.n_simulations, 0),
                                     Repeat(raised, MonthsPerYear))
    IN  [return_mean |-> return_mean, return_stdev |-> return_stdev,
         second_mean |-> raise_mean, second_stdev |-> raise_stdev,
         n_months |-> n_months, monthly_returns |-> monthly_returns,
         raises |-> raises, contributions |-> contributions]

growth_simulation(a, l) ==
    LET full == Full(l.n_months + MonthsPerYear, a.n_simulations,
                     Float(a.start_capital))
        sims == growth_loop(0, l.n_months + PadRows, full, l.monthly_returns,
                            l.contributions)
    IN  [kind |-> "DataFrame", values |-> DropLast(sims, PadRows)]

AccumulationArgs ==
    {a \in [start_capital : {-100000, 4, 100000},
            return_mean : {0, 6}, return_stdev : {0, 12},
            raise_mean : {-200, 3}, raise_stdev : {0, 1},
            monthly_contribution : {-10000, 0, 10000},
            n_years : 0..MaxYears, n_simulations : 0..MaxSims,
            return_shock : Shocks({0, MonthsPerYear}), raise_shock : Shocks({0})] :
        /\ (a.return_stdev = 0) = (a.return_shock = NoShock)
        /\ (a.raise_stdev = 0) = (a.raise_shock = NoShock)}

InitAccumulation ==
    /\ pc = "call"
    /\ fn = "growth_simulation"
    /\ args \in AccumulationArgs
    /\ locals = NoLocals
    /\ ret = Pending

growth_simulation_call ==
    /\ pc = "call"
    /\ fn = "growth_simulation"
    /\ pc' = "done"
    /\ locals' = growth_simulation_locals(args)
    /\ ret' = growth_simulation(args, locals')
    /\ UNCHANGED <<fn, args>>

SpecAccumulation == InitAccumulation /\ [][growth_simulation_call]_vars

(***************************************************************************)
(* withdrawal_simulation                                                   *)
(***************************************************************************)
PercentToDecimal(x) == IF x > Number(1) THEN DivPercent(x) ELSE x

(* Variant: ruin is masked while stepping, so it sticks to the later rows. *)
masking_step(balance, factor, withdrawal) ==
    LET next == MulRate(balance.num, factor) - withdrawal
    IN  IF balance.nan \/ balance.num < 0 \/ next < 0 THEN NaN ELSE Float(next)

RECURSIVE withdrawal_loop_masking(_, _, _, _, _, _)
withdrawal_loop_masking(j, last, sims, monthly_returns, monthly_inflation, monthly_withdrawal) ==
    IF j >= last THEN sims
    ELSE LET row(c) == masking_step(sims.at[j][c],
                                    RateRes + monthly_returns.at[j][c]
                                            - monthly_inflation.at[j][c],
                                    monthly_withdrawal.at[j][c])
         IN  withdrawal_loop_masking(j + 1, last, SetRow(sims, j + 1, row),
                                     monthly_returns, monthly_inflation,
                                     monthly_withdrawal)

RECURSIVE withdrawal_loop(_, _, _, _, _, _)
withdrawal_loop(j, last, sims, monthly_returns, monthly_inflation, monthly_withdrawal) ==
    IF j >= last THEN sims
    ELSE LET row(c) ==
                 Float(MulRate(sims.at[j][c].num,
                               RateRes + monthly_returns.at[j][c]
                                       - monthly_inflation.at[j][c])
                       - monthly_withdrawal.at[j][c])
         IN  withdrawal_loop(j + 1, last, SetRow(sims, j + 1, row), monthly_returns,
                             monthly_inflation, monthly_withdrawal)

IsBelowZero(v) == ~v.nan /\ v.num < 0

(* Variant: a balance of exactly zero is masked too. *)
MaskNotPositive(a) ==
    LET cell(j, c) == IF ~a.at[j][c].nan /\ a.at[j][c].num <= 0 THEN NaN
                      ELSE a.at[j][c]
    IN  Array(a.shape[1], a.shape[2], cell)

MaskBelowZero(a) ==
    LET cell(j, c) == IF IsBelowZero(a.at[j][c]) THEN NaN ELSE a.at[j][c]
    IN  Array(a.shape[1], a.shape[2], cell)

(* Variant: the table is returned in currency units. *)
NotRescaled(a) == Array(a.shape[1], a.shape[2], LAMBDA j, c : a.at[j][c])

ToMillions(a) ==
    LET cell(j, c) == IF a.at[j][c].nan THEN NaN
                      ELSE [a.at[j][c] EXCEPT !.den = @ * Million]
    IN  Array(a.shape[1], a.shape[2], cell)

withdrawal_simulation_locals(a) ==
    LET return_mean == PercentToDecimal(Number(a.return_mean))
        inflation_mean == PercentToDecimal(Number(a.inflation_mean))
        return_stdev == Number(a.return_stdev)
        inflation_stdev == Number(a.inflation_stdev)
        n_months == MonthsPerYear * a.n_years
        monthly_returns == sims_matrix(n_months, a.n_simulations,
                                       DivMonths(return_mean),
                                       DivSqrtMonths(return_stdev), a.return_shock)
        monthly_inflation == sims_matrix(n_months, a.n_simulations,
                                         DivMonths(inflation_mean),
                                         DivSqrtMonths(inflation_stdev),
                                         a.inflation_shock)
        monthly_withdrawal == sims_matrix(n_months, a.n_simulations,
                                          a.monthly_withdrawal,
                                          WithdrawalStdevCents * (FloatRes \div CentsPerUnit),
                                          a.withdrawal_shock)
    IN  [return_mean |-> return_mean, return_stdev |-> return_stdev,
         second_mean |-> inflation_mean, second_stdev |-> inflation_stdev,
         n_months |-> n_months, monthly_returns |-> monthly_returns,
         monthly_inflation |-> monthly_inflation,
         monthly_withdrawal |-> monthly_withdrawal]

withdrawal_simulation(a, l) ==
    LET full == Full(l.n_months + 1, a.n_simulations, Float(a.start_capital))
        sims == withdrawal_loop(0, l.n_months, full, l.monthly_returns,
                                l.monthly_inflation, l.monthly_withdrawal)
    IN  [kind |-> "DataFrame", values |-> ToMillions(MaskBelowZero(sims))]

DecumulationArgs ==
    {a \in [start_capital : {-1000, 0, 10000},
            return_mean : {0, 6}, return_stdev : {0, 2},
            inflation_mean : {0, 6}, inflation_stdev : {0, 2},
            monthly_withdrawal : {0, 1000},
            n_years : 0..MaxYears, n_simulations : 0..MaxSims,
            return_shock : Shocks({1}),
            inflation_shock : Shocks({1}),
            withdrawal_shock : Shocks({0})] :
        /\ (a.return_stdev = 0) = (a.return_shock = NoShock)
        /\ (a.inflation_stdev = 0) = (a.inflation_shock = NoShock)}

InitDecumulation ==
    /\ pc = "call"
    /\ fn = "withdrawal_simulation"
    /\ args \in DecumulationArgs
    /\ locals = NoLocals
    /\ ret = Pending

withdrawal_simulation_call ==
    /\ pc = "call"
    /\ fn = "withdrawal_simulation"
    /\ pc' = "done"
    /\ locals' = withdrawal_simulation_locals(args)
    /\ ret' = withdrawal_simulation(args, locals')
    /\ UNCHANGED <<fn, args>>

SpecDecumulation == InitDecumulation /\ [][withdrawal_simulation_call]_vars

(***************************************************************************)
(* Every entry point of the module.                                        *)
(***************************************************************************)
Init == InitGrowth \/ InitAccumulation \/ InitDecumulation

Next == growth_call \/ growth_simulation_call \/ withdrawal_simulation_call

Spec == Init /\ [][Next]_vars

SpecSimulators ==
    (InitAccumulation \/ InitDecumulation)
    /\ [][growth_simulation_call \/ withdrawal_simulation_call]_vars

(***************************************************************************)
(* Properties.                                                             *)
(***************************************************************************)
Done(f) == pc = "done" /\ fn = f

DoneSimulator == Done("growth_simulation") \/ Done("withdrawal_simulation")

ProperCall == args.n_years >= 1 /\ args.n_simulations >= 1

Columns == 0..(args.n_simulations - 1)

Months == 0..(MonthsPerYear * args.n_years - 1)

Balance(m, c) == ret.values.at[m][c]

(* C1: for n_years >= 1 and n_simulations >= 1, row 0 of the table         *)
(* growth_simulation returns equals start_capital in every column.         *)
C1_RowZeroIsStartCapital ==
    (Done("growth_simulation") /\ ProperCall) =>
        /\ ret.values.shape[1] >= 1
        /\ \A c \in Columns : Balance(0, c) = Float(args.start_capital)

C1_Witness ==
    /\ Done("growth_simulation") /\ ProperCall
    /\ \E c \in Columns : /\ ~Balance(1, c).nan
                          /\ Balance(1, c) # Float(args.start_capital)
                          /\ Balance(0, c) = Float(args.start_capital)

(* C3: for n_years >= 1 and n_simulations >= 1, both simulators return a   *)
(* table of exactly 12*n_years + 1 rows and n_simulations columns.         *)
C3_Shape ==
    (DoneSimulator /\ ProperCall) =>
        /\ ret.kind = "DataFrame"
        /\ ret.values.shape = <<MonthsPerYear * args.n_years + 1, args.n_simulations>>
        /\ DOMAIN ret.values.at = 0..(MonthsPerYear * args.n_years)
        /\ \A m \in DOMAIN ret.values.at : DOMAIN ret.values.at[m] = Columns

C3_Witness ==
    /\ Done("growth_simulation") /\ ProperCall
    /\ args.n_years = 2 /\ args.n_simulations = 2
    /\ ret.values.shape = <<25, 2>>

(* C9: in the accumulation table, for every month m in 0..12*n_years-1     *)
(* and every column whose drawn rate of month m is not zero,               *)
(* balance[m+1] = round_to_cents(balance[m] * (1 + rate[m]) + c[m+1]),     *)
(* where c[m+1] is monthly_contribution times the raise factors of the     *)
(* first floor(m/12) years; nothing of the padding rows enters.            *)
RECURSIVE ScheduledContribution(_, _)
ScheduledContribution(year, c) ==
    IF year = 0 THEN args.monthly_contribution
    ELSE MulRate(ScheduledContribution(year - 1, c), locals.raises.at[year - 1][c])

RoundToCents(a, d) ==
    LET cent == FloatRes \div CentsPerUnit
    IN  RoundHalfEven(a, cent * d) * cent

MonthlyStep(balance, rate, contribution) ==
    IF balance.nan THEN NaN
    ELSE Float(RoundToCents(balance.num * (RateRes + rate) + contribution * RateRes,
                            RateRes))

C9_MonthlyRecurrence ==
    Done("growth_simulation") =>
        \A m \in Months : \A c \in Columns :
            LET rate == locals.monthly_returns.at[m][c]
            IN  rate # 0 =>
                    Balance(m + 1, c) =
                        MonthlyStep(Balance(m, c), rate,
                                    ScheduledContribution(m \div MonthsPerYear, c))

C9_Witness ==
    /\ Done("growth_simulation") /\ ProperCall
    /\ args.n_years = 2 /\ args.monthly_contribution # 0
    /\ args.return_shock.k # 0 /\ args.raise_shock.k # 0
    /\ \E c \in Columns :
          /\ ~Balance(MonthsPerYear + 1, c).nan
          /\ ScheduledContribution(1, c) # args.monthly_contribution
          /\ Balance(MonthsPerYear + 1, c) # Balance(MonthsPerYear, c)

(* C8: with return_stdev = 0, raise_stdev = 0 and a positive mean return   *)
(* every column of the accumulation table is non-decreasing from row to    *)
(* row.  Stated as in the claim, for every start_capital and contribution. *)
NonDecreasing ==
    \A m \in Months : \A c \in Columns :
        /\ ~Balance(m, c).nan /\ ~Balance(m + 1, c).nan
        /\ Balance(m + 1, c).num >= Balance(m, c).num

Deterministic ==
    args.return_stdev = 0 /\ args.raise_stdev = 0 /\ args.return_mean > 0

C8_NonDecreasing_AsClaimed ==
    (Done("growth_simulation") /\ Deterministic) => NonDecreasing

(* C8 as amended: the same, provided start_capital is a non-negative whole *)
(* number of cents, monthly_contribution >= 0 and raise_mean >= -100.      *)
WholeCents(m) == m % (FloatRes \div CentsPerUnit) = 0

C8_NonDecreasing ==
    (/\ Done("growth_simulation") /\ Deterministic
     /\ args.start_capital >= 0 /\ WholeCents(args.start_capital)
     /\ args.monthly_contribution >= 0 /\ args.raise_mean >= 0 - Percent)
        => NonDecreasing

C8_Witness ==
    /\ Done("growth_simulation") /\ Deterministic /\ ProperCall
    /\ args.start_capital >= 0 /\ WholeCents(args.start_capital)
    /\ args.monthly_contribution > 0 /\ args.raise_mean >= 0 - Percent
    /\ \A c \in Columns :
          Balance(MonthsPerYear * args.n_years, c).num > Balance(0, c).num

(* C2: row 0 of the table withdrawal_simulation returns equals             *)
(* start_capital in every column.  Stated as in the claim, on the calls    *)
(* with n_years >= 1, n_simulations >= 1 and start_capital >= 0.           *)
SameValue(v, m) ==
    LET k == v.den \div FloatRes
    IN  ~v.nan /\ v.num % k = 0 /\ v.num \div k = m

C2_RowZeroIsStartCapital_AsClaimed ==
    (Done("withdrawal_simulation") /\ ProperCall /\ args.start_capital >= 0) =>
        \A c \in Columns : SameValue(Balance(0, c), args.start_capital)

(* C2 as amended: row 0 of the decumulation table equals                   *)
(* start_capital / 1,000,000 in every column when start_capital >= 0 and   *)
(* is undefined in every column when start_capital < 0.                    *)
InMillions(m) == [nan |-> FALSE, num |-> m, den |-> FloatRes * Million]

C2_RowZeroInMillions ==
    Done("withdrawal_simulation") =>
        /\ ret.values.shape[1] >= 1
        /\ \A c \in Columns :
              Balance(0, c) = IF args.start_capital < 0 THEN NaN
                              ELSE InMillions(args.start_capital)

C2_Witness ==
    /\ Done("withdrawal_simulation") /\ ProperCall
    /\ args.start_capital > 0
    /\ \A c \in Columns : /\ Balance(0, c) = InMillions(args.start_capital)
                          /\ ~SameValue(Balance(0, c), args.start_capital)

(* C10: the decumulation recurrence                                        *)
(*   balance[t+1] = balance[t] * (1 + return[t] - inflation[t])            *)
(*                  - withdrawal[t]                                        *)
(* runs over all months on unmasked values; a returned cell is undefined   *)
(* exactly when its own recurrence value is negative, and is that value    *)
(* in millions otherwise.                                                  *)
RECURSIVE Unmasked(_, _)
Unmasked(t, c) ==
    IF t = 0 THEN args.start_capital
    ELSE MulRate(Unmasked(t - 1, c),
                 RateRes + locals.monthly_returns.at[t - 1][c]
                         - locals.monthly_inflation.at[t - 1][c])
         - locals.monthly_withdrawal.at[t - 1][c]

C10_MaskAfterRecurrence ==
    Done("withdrawal_simulation") =>
        /\ ret.values.shape[1] = MonthsPerYear * args.n_years + 1
        /\ \A t \in 0..(MonthsPerYear * args.n_years) : \A c \in Columns :
              /\ Balance(t, c).nan <=> (Unmasked(t, c) < 0)
              /\ ~Balance(t, c).nan => Balance(t, c) = InMillions(Unmasked(t, c))

C10_Witness ==
    /\ Done("withdrawal_simulation") /\ ProperCall
    /\ \E c \in Columns : \E t \in Months :
          /\ t >= 1
          /\ Balance(t, c).nan
          /\ ~Balance(t + 1, c).nan
          /\ Unmasked(t, c) < 0

(* C7: in the decumulation table, with monthly_withdrawal = 0 and a mean   *)
(* return >= 0, no cell is undefined.  Stated as in the claim, on the      *)
(* calls with n_years >= 1, n_simulations >= 1 and start_capital >= 0.     *)
NoRuin ==
    \A t \in 0..(MonthsPerYear * args.n_years) : \A c \in Columns :
        ~Balance(t, c).nan

BenignDraws ==
    \A t \in Months : \A c \in Columns :
        /\ locals.monthly_withdrawal.at[t][c] <= 0
        /\ RateRes + locals.monthly_returns.at[t][c]
                   - locals.monthly_inflation.at[t][c] >= 0

C4_RejectsEmptyCall ==
    (DoneSimulator /\ (args.n_years = 0 \/ args.n_simulations = 0)) =>
        /\ ret.kind = "raised"
        /\ ret.error \in {"InvalidHorizon", "InvalidDimension"}

(* C5: growth with a rate of exactly 0 returns a defined balance, equal to *)
(* principal + contribution * n rounded to cents.                          *)
C5_ZeroRate ==
    (Done("growth") /\ args.rate.num = 0) =>
        /\ ret.kind = "value"
        /\ ~ret.value.nan
        /\ ret.value = Float(RoundToCents(args.principal + args.contribution * args.n, 1))

(* C6: both simulators normalise each percentage argument (return mean and *)
(* stdev, raise or inflation mean and stdev) by one rule: a value > 1 is   *)
(* divided by 100, a value <= 1 is used unchanged.                         *)
NormalisedByRule(p) == IF p > 1 THEN DivPercent(Number(p)) ELSE Number(p)

SecondMean ==
    IF fn = "growth_simulation" THEN args.raise_mean ELSE args.inflation_mean

SecondStdev ==
    IF fn = "growth_simulation" THEN args.raise_stdev ELSE args.inflation_stdev

C6_UniformNormalisation ==
    DoneSimulator =>
        /\ locals.return_mean = NormalisedByRule(args.return_mean)
        /\ locals.return_stdev = NormalisedByRule(args.return_stdev)
        /\ locals.second_mean = NormalisedByRule(SecondMean)
        /\ locals.second_stdev = NormalisedByRule(SecondStdev)

====
